---- MODULE Spec2Model ----
(***************************************************************************)
(* The iterative retrieval-review-synthesis loop of the RFP chat agent:    *)
(* RfpService.execute_conversation_workflow and the steps it calls, over   *)
(* the RfpConversation state (models/rfp_conversation.py).                 *)
(*                                                                         *)
(* One action per step of the loop.  Every external call (chat model,      *)
(* search index, chat-history store) either returns a value drawn from a   *)
(* small set or raises.  The reads of conversation.user_id, .session_id    *)
(* and .file_name made while building messages and trace entries are       *)
(* taken to succeed; were one of them to raise inside a try block, the     *)
(* step would take the failure branch that the action already has.         *)
(***************************************************************************)
EXTENDS Integers, Sequences, FiniteSets, TLC

VARIABLES
    conversation,       \* the RfpConversation object threaded through the loop
    pc,                 \* position of execute_conversation_workflow
    search_query,       \* local of the loop: value returned by generate_search_query
    result,             \* the ConversationResult returned, None before
    gen_calls,          \* number of generate_search_query calls (saturating)
    search_calls,       \* number of execute_search calls (saturating)
    review_calls,       \* number of review_search_results calls (saturating)
    final_calls,        \* number of generate_final_answer calls
    retriever_queries,  \* the queries handed to run_search, in order (first MaxCalls)
    prev_retrieved,     \* chunk ids placed in current_results by earlier retrievals
    last_review,        \* what the reviewer model returned to the review step just taken
    sc_result,          \* the latest should_continue() evaluation and what it returned
    step_failed,        \* the step just taken ended in its except branch (Start: raised)
    synth_calls,        \* the external calls generate_final_answer made
    all_succeeded,      \* no step of the run so far ended in its except branch
    heap,               \* concurrent requests: the list and set objects, by address
    tasks,              \* concurrent requests: the frame of each chat_with_rfp call
    alone,              \* concurrent requests: each conversation as it evolves on its own
    run_search_raised   \* capabilities workflow: run_search raised in the search step just taken

vars == <<conversation, pc, search_query, result, gen_calls, search_calls,
          review_calls, final_calls, retriever_queries, prev_retrieved,
          last_review, sc_result, step_failed, synth_calls, all_succeeded,
          heap, tasks, alone, run_search_raised>>

-----------------------------------------------------------------------------
(* Program constants *)

MAX_ATTEMPTS == 3
NUM_SEARCH_RESULTS == 5

(* Bounds of the model *)

MaxMaxAttempts == 2     \* max_attempts ranges over 0..MaxMaxAttempts and MAX_ATTEMPTS;
                        \* as many loop iterations are explored with every outcome
MaxIdxLen == 2          \* number of indices in one reviewer response, both lists together
MaxDecisions == 3       \* length of decisions in the should_continue harness

MaxCalls == MaxMaxAttempts + 1    \* the call counters saturate here

MaxPairSteps == 5       \* concurrent requests: the steps of each request explored
                        \* with every outcome; later steps with the failing ones only

None == "None"

Min(a, b) == IF a < b THEN a ELSE b
Range(s) == {s[i] : i \in 1..Len(s)}

-----------------------------------------------------------------------------
(* The search index: a fixed corpus of chunks; chunk_id is the index key. *)

Corpus ==
    { [chunk_id |-> "c1", pursuit_name |-> "p1"],
      [chunk_id |-> "c2", pursuit_name |-> "p2"] }

UserQueries == {"uq"}
ModelQueries == {"q1"}
Pursuits == {None, "p1"}
Rationales == {"ra"}
Decisions == {"retry", "finalize"}
MaxAttemptsValues == (0..MaxMaxAttempts) \cup {MAX_ATTEMPTS}

SearchResultIndex == 0..(NUM_SEARCH_RESULTS - 1)

\* rank of a document in the index's ordering of the corpus
Rank(item) == IF item.chunk_id = "c1" THEN 1 ELSE 2

ChunkIds(results) == {results[i].chunk_id : i \in 1..Len(results)}

-----------------------------------------------------------------------------
(* RfpConversation *)

NewConversation(uq, pn, ma) ==
    [ user_query        |-> uq,
      pursuit_name      |-> pn,
      max_attempts      |-> ma,
      attempts          |-> 0,
      search_history    |-> <<>>,
      current_results   |-> <<>>,
      vetted_results    |-> <<>>,
      discarded_results |-> <<>>,
      processed_ids     |-> {},
      thought_process   |-> <<>>,
      reviews           |-> <<>>,
      decisions         |-> <<>> ]

\* variant: only the most recent decision is looked at
has_sufficient_results_LastOnly(c) ==
    Len(c.decisions) > 0 /\ c.decisions[Len(c.decisions)] = "finalize"

has_sufficient_results(c) ==
    \E i \in 1..Len(c.decisions) : c.decisions[i] = "finalize"

\* variant: the loop stops one attempt short of the budget
should_continue_OneShort(c) ==
    c.attempts + 1 < c.max_attempts /\ ~has_sufficient_results(c)

\* variant: the budget test admits attempts = max_attempts
should_continue_Inclusive(c) ==
    c.attempts <= c.max_attempts /\ ~has_sufficient_results(c)

\* variant: the attempt budget alone decides
should_continue_AttemptsOnly(c) ==
    c.attempts < c.max_attempts

should_continue(c) ==
    c.attempts < c.max_attempts /\ ~has_sufficient_results(c)

\* variant: the query is recorded without counting the attempt
add_search_attempt_NoCount(c, query) ==
    [c EXCEPT !.search_history = Append(@, [query |-> query])]

add_search_attempt(c, query) ==
    [c EXCEPT !.attempts = @ + 1,
              !.search_history = Append(@, [query |-> query])]

\* variant: the queries are reported without the latest one
to_result_DropLast(c, final_answer) ==
    [ final_answer   |-> final_answer,
      citations      |-> c.vetted_results,
      thought_process|-> c.thought_process,
      attempts       |-> c.attempts,
      search_queries |-> [i \in 1..(Len(c.search_history) - 1) |-> c.search_history[i].query] ]

to_result(c, final_answer) ==
    [ final_answer   |-> final_answer,
      citations      |-> c.vetted_results,
      thought_process|-> c.thought_process,
      attempts       |-> c.attempts,
      search_queries |-> [i \in 1..Len(c.search_history) |-> c.search_history[i].query] ]

-----------------------------------------------------------------------------
(* Trace entries of thought_process, one shape for the three kinds *)

TraceEntry(step, query, results, valid, invalid, decision, text) ==
    [ step |-> step, query |-> query, results |-> results, valid |-> valid,
      invalid |-> invalid, decision |-> decision, text |-> text ]

Summary(results) == [i \in 1..Len(results) |-> results[i].chunk_id]

-----------------------------------------------------------------------------
(* AzureAISearchService.run_search *)

\* ','.join(processed_ids): the identifiers in some iteration order of the set
RECURSIVE JoinIds(_)
JoinIds(ids) ==
    IF ids = {} THEN <<>>
    ELSE LET x == CHOOSE y \in ids : TRUE
         IN  <<x>> \o JoinIds(ids \ {x})

\* filter_parts: "not search.in(chunk_id, ids)" when processed_ids is non-empty,
\* "pursuit_name eq name" when pursuit_name is given
\* variant: the exclusion clause is never added
BuildFilter_NoExclusion(processed_ids, pursuit_name) ==
    [ has_not_in  |-> FALSE,
      not_in      |-> <<>>,
      has_pursuit |-> pursuit_name # None,
      pursuit     |-> pursuit_name ]

BuildFilter(processed_ids, pursuit_name) ==
    [ has_not_in  |-> processed_ids # {},
      not_in      |-> JoinIds(processed_ids),
      has_pursuit |-> pursuit_name # None,
      pursuit     |-> pursuit_name ]

\* the index evaluating the filter on one document
Matches(item, filter) ==
    /\ filter.has_not_in => item.chunk_id \notin Range(filter.not_in)
    /\ filter.has_pursuit => item.pursuit_name = filter.pursuit

\* the documents of S in rank order
RECURSIVE Ranked(_)
Ranked(S) ==
    IF S = {} THEN <<>>
    ELSE LET top == CHOOSE x \in S : \A y \in S : Rank(x) <= Rank(y)
         IN  <<top>> \o Ranked(S \ {top})

\* the result lists of at most n documents out of S
TopLists(S, n) == { Ranked(T) : T \in {U \in SUBSET S : Cardinality(U) <= n} }

\* the ranked lists search_client.search(filter=..., top=NUM_SEARCH_RESULTS) can return
run_search(processed_ids, pursuit_name) ==
    LET filter == BuildFilter(processed_ids, pursuit_name)
    IN  TopLists({item \in Corpus : Matches(item, filter)}, NUM_SEARCH_RESULTS)

-----------------------------------------------------------------------------
(* RfpService.generate_search_query: resp is what the model call (and the   *)
(* chat-history write after it) produced; ok = FALSE when either raised.    *)

GenFailure == [ok |-> FALSE, search_query |-> ""]

GenResponses ==
    {[ok |-> TRUE, search_query |-> q] : q \in ModelQueries} \cup {GenFailure}

\* variant: the fallback returns an empty query
generate_search_query_FallbackEmpty(c, resp) ==
    IF resp.ok
    THEN [conv |-> add_search_attempt(c, resp.search_query), ret |-> resp.search_query]
    ELSE [conv |-> c, ret |-> ""]

generate_search_query(c, resp) ==
    IF resp.ok
    THEN [conv |-> add_search_attempt(c, resp.search_query), ret |-> resp.search_query]
    ELSE [conv |-> c, ret |-> c.user_query]

-----------------------------------------------------------------------------
(* RfpService.execute_search: resp.ok = FALSE when run_search raised *)

SearchFailure == [ok |-> FALSE, results |-> <<>>]

SearchResponses(c) ==
    {[ok |-> TRUE, results |-> r] : r \in run_search(c.processed_ids, c.pursuit_name)}
    \cup {SearchFailure}

\* variant: a failed search leaves current_results as it was
execute_search_FailKeeps(c, query, resp) ==
    IF resp.ok
    THEN [c EXCEPT !.current_results = resp.results,
                   !.thought_process =
                       Append(@, TraceEntry("retrieve", query, Summary(resp.results),
                                            <<>>, <<>>, "", ""))]
    ELSE c

execute_search(c, query, resp) ==
    IF resp.ok
    THEN [c EXCEPT !.current_results = resp.results,
                   !.thought_process =
                       Append(@, TraceEntry("retrieve", query, Summary(resp.results),
                                            <<>>, <<>>, "", ""))]
    ELSE [c EXCEPT !.current_results = <<>>]

-----------------------------------------------------------------------------
(* RfpService.review_search_results *)

\* the indices of the batch under review and the first index out of its range
ReviewerIndices(results) == {idx \in SearchResultIndex : idx <= Len(results)}

IndexLists(results) == UNION { [1..k -> ReviewerIndices(results)] : k \in 0..MaxIdxLen }

ReviewFailure ==
    [ok |-> FALSE, thought_process |-> "", valid_results |-> <<>>,
     invalid_results |-> <<>>, decision |-> ""]

ReviewResponses(results) ==
    { rd \in [ok : {TRUE}, thought_process : Rationales,
               valid_results : IndexLists(results),
               invalid_results : IndexLists(results), decision : Decisions] :
        Len(rd.valid_results) + Len(rd.invalid_results) <= MaxIdxLen }
    \cup {ReviewFailure}

\* current_results[idx] raises IndexError
IndexError(results, idx) == idx >= Len(results)

\* [idx for idx in indices if 0 <= idx < current_results_count]
FilterIndices(indices, count) ==
    SelectSeq(indices, LAMBDA idx : 0 <= idx /\ idx < count)

\* variant: the trace entry lists the in-range indices only and never raises
ReviewTrace_Filtered(c, rd) ==
    LET valid == FilterIndices(rd.valid_results, Len(c.current_results))
        invalid == FilterIndices(rd.invalid_results, Len(c.current_results))
    IN  [conv |-> [c EXCEPT !.thought_process =
                      Append(@, TraceEntry("review", "", <<>>,
                          [i \in 1..Len(valid) |-> c.current_results[valid[i] + 1].chunk_id],
                          [i \in 1..Len(invalid) |-> c.current_results[invalid[i] + 1].chunk_id],
                          rd.decision, rd.thought_process))],
         raised |-> FALSE]

\* the "review" trace entry: raises when any listed index is out of range
ReviewTrace(c, rd) ==
    IF \/ \E i \in 1..Len(rd.valid_results) :
              IndexError(c.current_results, rd.valid_results[i])
       \/ \E j \in 1..Len(rd.invalid_results) :
              IndexError(c.current_results, rd.invalid_results[j])
    THEN [conv |-> c, raised |-> TRUE]
    ELSE [conv |-> [c EXCEPT !.thought_process =
                        Append(@, TraceEntry("review", "", <<>>,
                            [i \in 1..Len(rd.valid_results) |->
                                c.current_results[rd.valid_results[i] + 1].chunk_id],
                            [i \in 1..Len(rd.invalid_results) |->
                                c.current_results[rd.invalid_results[i] + 1].chunk_id],
                            rd.decision, rd.thought_process))],
          raised |-> FALSE]

\* for idx in indices: result = current_results[idx]; bucket.append(result);
\*                     processed_ids.add(result.chunk_id)
\* variant: discarded items are not added to processed_ids
RECURSIVE MoveResults_VettedOnly(_, _, _)
MoveResults_VettedOnly(st, indices, bucket) ==
    IF st.raised \/ indices = <<>> THEN st
    ELSE LET idx == Head(indices)
             c == st.conv
         IN  IF IndexError(c.current_results, idx)
             THEN [conv |-> c, raised |-> TRUE]
             ELSE LET item == c.current_results[idx + 1]
                  IN  MoveResults_VettedOnly(
                        [conv |-> [c EXCEPT ![bucket] = Append(@, item),
                                            !.processed_ids =
                                                IF bucket = "vetted_results"
                                                THEN @ \cup {item.chunk_id} ELSE @],
                         raised |-> FALSE],
                        Tail(indices), bucket)

\* variant: the item is put at the front of the bucket
RECURSIVE MoveResults_Prepend(_, _, _)
MoveResults_Prepend(st, indices, bucket) ==
    IF st.raised \/ indices = <<>> THEN st
    ELSE LET idx == Head(indices)
             c == st.conv
         IN  IF IndexError(c.current_results, idx)
             THEN [conv |-> c, raised |-> TRUE]
             ELSE LET item == c.current_results[idx + 1]
                  IN  MoveResults_Prepend(
                        [conv |-> [c EXCEPT ![bucket] = <<item>> \o @,
                                            !.processed_ids = @ \cup {item.chunk_id}],
                         raised |-> FALSE],
                        Tail(indices), bucket)

RECURSIVE MoveResults(_, _, _)
MoveResults(st, indices, bucket) ==
    IF st.raised \/ indices = <<>> THEN st
    ELSE LET idx == Head(indices)
             c == st.conv
         IN  IF IndexError(c.current_results, idx)
             THEN [conv |-> c, raised |-> TRUE]
             ELSE LET item == c.current_results[idx + 1]
                  IN  MoveResults(
                        [conv |-> [c EXCEPT ![bucket] = Append(@, item),
                                            !.processed_ids = @ \cup {item.chunk_id}],
                         raised |-> FALSE],
                        Tail(indices), bucket)

\* variant: the decision is put in front of the earlier ones
RecordReview_Prepend(c, rd) ==
    [c EXCEPT !.reviews = Append(@, rd.thought_process),
              !.decisions = <<rd.decision>> \o @]

\* variant: only the latest decision is kept
RecordReview_Overwrite(c, rd) ==
    [c EXCEPT !.reviews = Append(@, rd.thought_process),
              !.decisions = <<rd.decision>>]

RecordReview(c, rd) ==
    [c EXCEPT !.reviews = Append(@, rd.thought_process),
              !.decisions = Append(@, rd.decision)]

\* variant: current_results is not reset after the review
review_search_results_KeepCurrent(c, rd) ==
    IF ~rd.ok THEN c
    ELSE LET traced == ReviewTrace(c, rd)
         IN  IF traced.raised THEN traced.conv
             ELSE LET recorded == [conv |-> RecordReview(traced.conv, rd), raised |-> FALSE]
                      vetted == MoveResults(recorded, rd.valid_results, "vetted_results")
                      discarded == MoveResults(vetted, rd.invalid_results, "discarded_results")
                  IN  discarded.conv

\* variant: a failed model call is recorded as a "retry" decision
review_search_results_FailRecords(c, rd) ==
    IF ~rd.ok THEN [c EXCEPT !.decisions = Append(@, "retry")]
    ELSE LET traced == ReviewTrace(c, rd)
         IN  IF traced.raised THEN traced.conv
             ELSE LET recorded == [conv |-> RecordReview(traced.conv, rd), raised |-> FALSE]
                      vetted == MoveResults(recorded, rd.valid_results, "vetted_results")
                      discarded == MoveResults(vetted, rd.invalid_results, "discarded_results")
                  IN  IF discarded.raised THEN discarded.conv
                      ELSE [discarded.conv EXCEPT !.current_results = <<>>]

\* the except branch of review_search_results is taken
review_raised(c, rd) == ~rd.ok \/ ReviewTrace(c, rd).raised

review_search_results(c, rd) ==
    IF ~rd.ok THEN c
    ELSE LET traced == ReviewTrace(c, rd)
         IN  IF traced.raised THEN traced.conv
             ELSE LET recorded == [conv |-> RecordReview(traced.conv, rd), raised |-> FALSE]
                      vetted == MoveResults(recorded, rd.valid_results, "vetted_results")
                      discarded == MoveResults(vetted, rd.invalid_results, "discarded_results")
                  IN  IF discarded.raised THEN discarded.conv
                      ELSE [discarded.conv EXCEPT !.current_results = <<>>]

-----------------------------------------------------------------------------
(* RfpService.generate_final_answer *)

InsufficientMessage == "insufficient"
ModelAnswers == {"answer"}

\* str(e) of the exception a failed call raised
FailureReasons == {"e1", "e2"}

\* f"I encountered an error generating the final answer. Error: {str(e)}. ..."
ErrorMessage(reason) == IF reason = "e1" THEN "error: e1" ELSE "error: e2"

\* a call raised: a chat-history call before the model call (model_called =
\* FALSE), or the model call or the chat-history write after it
FinalFailure(model_called, reason) ==
    [ok |-> FALSE, text |-> "", model_called |-> model_called, reason |-> reason]

FinalResponses ==
    {[ok |-> TRUE, text |-> a, model_called |-> TRUE, reason |-> ""] : a \in ModelAnswers}
    \cup {FinalFailure(b, e) : b \in BOOLEAN, e \in FailureReasons}

\* the external calls of one generate_final_answer run and the exception caught
NoCalls == [history |-> FALSE, model |-> FALSE, error |-> ""]
Calls(history, model, error) == [history |-> history, model |-> model, error |-> error]

\* variant: the synthesizer resets current_results before answering
generate_final_answer_Resets(c, resp) ==
    IF c.vetted_results = <<>>
    THEN [conv |-> [c EXCEPT !.current_results = <<>>], ret |-> InsufficientMessage,
          calls |-> NoCalls, failed |-> FALSE]
    ELSE IF resp.ok
         THEN [conv |-> [c EXCEPT !.current_results = <<>>,
                                  !.thought_process =
                            Append(@, TraceEntry("response", "", <<>>, <<>>, <<>>, "", resp.text))],
               ret |-> resp.text, calls |-> Calls(TRUE, TRUE, ""), failed |-> FALSE]
         ELSE [conv |-> [c EXCEPT !.current_results = <<>>], ret |-> ErrorMessage(resp.reason),
               calls |-> Calls(TRUE, resp.model_called, resp.reason), failed |-> TRUE]

\* variant: the model is asked also when nothing was vetted
generate_final_answer_AlwaysModel(c, resp) ==
    IF resp.ok
    THEN [conv |-> [c EXCEPT !.thought_process =
                       Append(@, TraceEntry("response", "", <<>>, <<>>, <<>>, "", resp.text))],
          ret |-> resp.text, calls |-> Calls(TRUE, TRUE, ""), failed |-> FALSE]
    ELSE [conv |-> c, ret |-> ErrorMessage(resp.reason),
          calls |-> Calls(TRUE, resp.model_called, resp.reason), failed |-> TRUE]

\* variant: a failure is answered with the insufficient-information message
generate_final_answer_FailureSilent(c, resp) ==
    IF c.vetted_results = <<>>
    THEN [conv |-> c, ret |-> InsufficientMessage, calls |-> NoCalls, failed |-> FALSE]
    ELSE IF resp.ok
         THEN [conv |-> [c EXCEPT !.thought_process =
                            Append(@, TraceEntry("response", "", <<>>, <<>>, <<>>, "", resp.text))],
               ret |-> resp.text, calls |-> Calls(TRUE, TRUE, ""), failed |-> FALSE]
         ELSE [conv |-> c, ret |-> InsufficientMessage,
               calls |-> Calls(TRUE, resp.model_called, resp.reason), failed |-> TRUE]

generate_final_answer(c, resp) ==
    IF c.vetted_results = <<>>
    THEN [conv |-> c, ret |-> InsufficientMessage, calls |-> NoCalls, failed |-> FALSE]
    ELSE IF resp.ok
         THEN [conv |-> [c EXCEPT !.thought_process =
                            Append(@, TraceEntry("response", "", <<>>, <<>>, <<>>, "", resp.text))],
               ret |-> resp.text, calls |-> Calls(TRUE, TRUE, ""), failed |-> FALSE]
         ELSE [conv |-> c, ret |-> ErrorMessage(resp.reason),
               calls |-> Calls(TRUE, resp.model_called, resp.reason), failed |-> TRUE]

-----------------------------------------------------------------------------
(* RfpConversation as Python objects: the list and set fields are objects   *)
(* on a heap, reached through the references the instance holds; append and *)
(* add mutate the object, current_results is only ever reassigned.          *)

Tasks == {1, 2}

ContainerFields ==
    <<"search_history", "vetted_results", "discarded_results", "processed_ids",
      "thought_process", "reviews", "decisions">>

FieldSlot(f) == CHOOSE k \in 1..Len(ContainerFields) : ContainerFields[k] = f

\* list() or set()
EmptyValue(f) == IF f = "processed_ids" THEN {} ELSE <<>>

\* variant: one default object per class, shared by the instances
default_factory_Shared(h, f) == FieldSlot(f)

\* field(default_factory=...): a new object for every instance
default_factory(h, f) == Len(h) + FieldSlot(f)

\* RfpConversation(user_query=..., pursuit_name=..., max_attempts=...)
Construct(h, uq, pn, ma) ==
    LET refs == [f \in Range(ContainerFields) |-> default_factory(h, f)]
        top == CHOOSE a \in {refs[f] : f \in Range(ContainerFields)} :
                   \A f \in Range(ContainerFields) : refs[f] <= a
        size == IF top > Len(h) THEN top ELSE Len(h)
    IN  [ obj  |-> [ user_query |-> uq, pursuit_name |-> pn, max_attempts |-> ma,
                     attempts |-> 0, current_results |-> <<>>, refs |-> refs ],
          heap |-> [a \in 1..size |->
                      IF a <= Len(h) THEN h[a]
                      ELSE EmptyValue(ContainerFields[a - Len(h)])] ]

\* the conversation an instance denotes
View(h, obj) ==
    [ user_query        |-> obj.user_query,
      pursuit_name      |-> obj.pursuit_name,
      max_attempts      |-> obj.max_attempts,
      attempts          |-> obj.attempts,
      search_history    |-> h[obj.refs.search_history],
      current_results   |-> obj.current_results,
      vetted_results    |-> h[obj.refs.vetted_results],
      discarded_results |-> h[obj.refs.discarded_results],
      processed_ids     |-> h[obj.refs.processed_ids],
      thought_process   |-> h[obj.refs.thought_process],
      reviews           |-> h[obj.refs.reviews],
      decisions         |-> h[obj.refs.decisions] ]

\* the heap after a step has brought the instance's containers to the values of c
Store(h, obj, c) ==
    [a \in 1..Len(h) |->
        IF \E f \in Range(ContainerFields) : obj.refs[f] = a
        THEN c[CHOOSE f \in Range(ContainerFields) : obj.refs[f] = a]
        ELSE h[a]]

\* the instance after the step: attempts += 1, current_results = ...
UpdateObj(obj, c) ==
    [obj EXCEPT !.attempts = c.attempts, !.current_results = c.current_results]

NoObject ==
    [ user_query |-> None, pursuit_name |-> None, max_attempts |-> 0, attempts |-> 0,
      current_results |-> <<>>, refs |-> [f \in Range(ContainerFields) |-> 0] ]

IdleTask == [pc |-> "idle", conversation |-> NoObject, search_query |-> None, steps |-> 0]

-----------------------------------------------------------------------------
(* RfpService.execute_conversation_workflow *)

NoReview ==
    [ok |-> FALSE, thought_process |-> "", valid_results |-> <<>>,
     invalid_results |-> <<>>, decision |-> "", batch |-> <<>>]

Bump(n) == Min(n + 1, MaxCalls)

NotEvaluated == [evaluated |-> FALSE, value |-> FALSE]
Evaluated(b) == [evaluated |-> TRUE, value |-> b]

\* the first MaxMaxAttempts iterations are explored with every outcome of the
\* three steps, later iterations with the failing outcomes only
InBudget(iteration) == iteration <= MaxMaxAttempts

\* variant: the loop body runs once before the first test
WhileTest_BodyFirst(c) ==
    IF should_continue(c) \/ (c.attempts = 0 /\ c.reviews = <<>>) THEN "generate" ELSE "final"

\* while conversation.should_continue():
WhileTest(c) == IF should_continue(c) THEN "generate" ELSE "final"

Init ==
    /\ conversation \in { NewConversation(uq, pn, ma) :
                            uq \in UserQueries, pn \in Pursuits, ma \in MaxAttemptsValues }
    /\ pc = "start"
    /\ search_query = None
    /\ result = None
    /\ gen_calls = 0
    /\ search_calls = 0
    /\ review_calls = 0
    /\ final_calls = 0
    /\ retriever_queries = <<>>
    /\ prev_retrieved = {}
    /\ last_review = NoReview
    /\ sc_result = NotEvaluated
    /\ step_failed = FALSE
    /\ synth_calls = NoCalls
    /\ all_succeeded = TRUE
    /\ heap = <<>>
    /\ tasks = [i \in Tasks |-> IdleTask]
    /\ alone = [i \in Tasks |-> NewConversation(None, None, 0)]
    /\ run_search_raised = FALSE

\* get_chat_history_manager().add_message(chat_message), outside any try block,
\* then the first evaluation of the while condition
Start ==
    /\ pc = "start"
    /\ \E ok \in BOOLEAN :
         /\ step_failed' = ~ok
         /\ all_succeeded' = (all_succeeded /\ ~step_failed')
         /\ IF ok
            THEN /\ pc' = WhileTest(conversation)
                 /\ sc_result' = Evaluated(should_continue(conversation))
            ELSE /\ pc' = "raised"
                 /\ sc_result' = sc_result
    /\ UNCHANGED <<conversation, search_query, result, gen_calls, search_calls,
                   review_calls, final_calls, retriever_queries, prev_retrieved,
                   last_review, synth_calls,
                   heap, tasks, alone, run_search_raised>>

\* search_query = await self.generate_search_query(conversation)
GenerateSearchQuery ==
    /\ pc = "generate"
    /\ \E resp \in GenResponses :
         LET out == generate_search_query(conversation, resp)
         IN  /\ resp.ok => InBudget(gen_calls + 1)
             /\ conversation' = out.conv
             /\ search_query' = out.ret
             /\ last_review' = NoReview
             /\ step_failed' = ~resp.ok
             /\ all_succeeded' = (all_succeeded /\ ~step_failed')
    /\ gen_calls' = Bump(gen_calls)
    /\ pc' = "search"
    /\ UNCHANGED <<result, search_calls, review_calls, final_calls,
                   retriever_queries, prev_retrieved, sc_result, synth_calls,
                   heap, tasks, alone, run_search_raised>>

\* variant: a failed search is issued again before the review
ExecuteSearch_Retry ==
    /\ pc = "search"
    /\ \E resp \in SearchResponses(conversation) :
         /\ resp.ok => InBudget(gen_calls)
         /\ conversation' = execute_search(conversation, search_query, resp)
         /\ step_failed' = ~resp.ok
         /\ all_succeeded' = (all_succeeded /\ ~step_failed')
         /\ pc' = IF resp.ok THEN "review" ELSE "search"
    /\ search_calls' = Bump(search_calls)
    /\ retriever_queries' = IF Len(retriever_queries) < MaxCalls
                            THEN Append(retriever_queries, search_query)
                            ELSE retriever_queries
    /\ prev_retrieved' = prev_retrieved \cup ChunkIds(conversation'.current_results)
    /\ UNCHANGED <<search_query, result, gen_calls, review_calls, final_calls,
                   last_review, sc_result, synth_calls,
                   heap, tasks, alone, run_search_raised>>

\* await self.execute_search(search_query, conversation)
ExecuteSearch ==
    /\ pc = "search"
    /\ \E resp \in SearchResponses(conversation) :
         /\ resp.ok => InBudget(gen_calls)
         /\ conversation' = execute_search(conversation, search_query, resp)
         /\ step_failed' = ~resp.ok
         /\ all_succeeded' = (all_succeeded /\ ~step_failed')
    /\ search_calls' = Bump(search_calls)
    /\ retriever_queries' = IF Len(retriever_queries) < MaxCalls
                            THEN Append(retriever_queries, search_query)
                            ELSE retriever_queries
    /\ prev_retrieved' = prev_retrieved \cup ChunkIds(conversation'.current_results)
    /\ pc' = "review"
    /\ UNCHANGED <<search_query, result, gen_calls, review_calls, final_calls,
                   last_review, sc_result, synth_calls,
                   heap, tasks, alone, run_search_raised>>

\* await self.review_search_results(conversation), then the while condition again
ReviewSearchResults ==
    /\ pc = "review"
    /\ \E resp \in ReviewResponses(conversation.current_results) :
         /\ resp.ok => InBudget(gen_calls)
         /\ conversation' = review_search_results(conversation, resp)
         /\ last_review' = [ok |-> resp.ok, thought_process |-> resp.thought_process,
                            valid_results |-> resp.valid_results,
                            invalid_results |-> resp.invalid_results,
                            decision |-> resp.decision,
                            batch |-> conversation.current_results]
         /\ step_failed' = review_raised(conversation, resp)
         /\ all_succeeded' = (all_succeeded /\ ~step_failed')
    /\ review_calls' = Bump(review_calls)
    /\ pc' = WhileTest(conversation')
    /\ sc_result' = Evaluated(should_continue(conversation'))
    /\ UNCHANGED <<search_query, result, gen_calls, search_calls, final_calls,
                   retriever_queries, prev_retrieved, synth_calls,
                   heap, tasks, alone, run_search_raised>>

\* final_answer = await self.generate_final_answer(conversation)
\* return conversation.to_result(final_answer)
GenerateFinalAnswer ==
    /\ pc = "final"
    /\ \E resp \in FinalResponses :
         LET out == generate_final_answer(conversation, resp)
         IN  /\ conversation' = out.conv
             /\ result' = to_result(out.conv, out.ret)
             /\ step_failed' = out.failed
             /\ all_succeeded' = (all_succeeded /\ ~step_failed')
             /\ synth_calls' = out.calls
    /\ last_review' = NoReview
    /\ final_calls' = final_calls + 1
    /\ pc' = "done"
    /\ UNCHANGED <<search_query, gen_calls, search_calls, review_calls,
                   retriever_queries, prev_retrieved, sc_result,
                   heap, tasks, alone, run_search_raised>>

Next ==
    \/ Start
    \/ GenerateSearchQuery
    \/ ExecuteSearch
    \/ ReviewSearchResults
    \/ GenerateFinalAnswer

Spec == Init /\ [][Next]_vars

\* the workflow is one sequential coroutine that is always resumed
FairSpec == Spec /\ WF_vars(Next)

-----------------------------------------------------------------------------
(* RfpConversation.should_continue on its own: attempts and decisions are   *)
(* driven through arbitrary values and the predicate is evaluated on them.  *)

InitSC ==
    /\ conversation \in { NewConversation(uq, pn, ma) :
                            uq \in UserQueries, pn \in Pursuits, ma \in MaxAttemptsValues }
    /\ pc = "harness"
    /\ search_query = None
    /\ result = None
    /\ gen_calls = 0
    /\ search_calls = 0
    /\ review_calls = 0
    /\ final_calls = 0
    /\ retriever_queries = <<>>
    /\ prev_retrieved = {}
    /\ last_review = NoReview
    /\ sc_result = NotEvaluated
    /\ step_failed = FALSE
    /\ synth_calls = NoCalls
    /\ all_succeeded = TRUE
    /\ heap = <<>>
    /\ tasks = [i \in Tasks |-> IdleTask]
    /\ alone = [i \in Tasks |-> NewConversation(None, None, 0)]
    /\ run_search_raised = FALSE

HarnessFrame ==
    UNCHANGED <<pc, search_query, result, gen_calls, search_calls, review_calls,
                final_calls, retriever_queries, prev_retrieved, last_review,
                step_failed, synth_calls, all_succeeded,
                heap, tasks, alone, run_search_raised>>

AddSearchAttempt ==
    /\ conversation.attempts <= MAX_ATTEMPTS
    /\ \E q \in ModelQueries : conversation' = add_search_attempt(conversation, q)
    /\ sc_result' = NotEvaluated
    /\ HarnessFrame

AppendDecision ==
    /\ Len(conversation.decisions) < MaxDecisions
    /\ \E d \in Decisions :
         conversation' = [conversation EXCEPT !.decisions = Append(@, d)]
    /\ sc_result' = NotEvaluated
    /\ HarnessFrame

EvaluateShouldContinue ==
    /\ ~sc_result.evaluated
    /\ sc_result' = Evaluated(should_continue(conversation))
    /\ UNCHANGED conversation
    /\ HarnessFrame

NextSC ==
    \/ AddSearchAttempt
    \/ AppendDecision
    \/ EvaluateShouldContinue

SpecSC == InitSC /\ [][NextSC]_vars

-----------------------------------------------------------------------------
(* Two chat_with_rfp requests served concurrently: each constructs its own  *)
(* RfpConversation and runs execute_conversation_workflow on it; the steps  *)
(* of the two workflows interleave in any order.  alone[i] is conversation  *)
(* i computed on its own from the outcomes its external calls had.          *)

LoopVars == <<conversation, pc, search_query, result, gen_calls, search_calls,
              review_calls, final_calls, retriever_queries, prev_retrieved,
              last_review, sc_result, step_failed, synth_calls, all_succeeded,
              run_search_raised>>

\* the step the request takes next is explored with every outcome
PairInBudget(steps) == steps < MaxPairSteps

\* both requests ask within a pursuit
PairPursuits == Pursuits \ {None}

\* the reviewer answers that list no index more than once
PairReviewResponses(results) ==
    { rd \in ReviewResponses(results) :
        LET listed == rd.valid_results \o rd.invalid_results
        IN  \A j, k \in 1..Len(listed) : j # k => listed[j] # listed[k] }

InitPair ==
    /\ conversation = NewConversation(None, None, 0)
    /\ pc = "pair"
    /\ search_query = None
    /\ result = None
    /\ gen_calls = 0
    /\ search_calls = 0
    /\ review_calls = 0
    /\ final_calls = 0
    /\ retriever_queries = <<>>
    /\ prev_retrieved = {}
    /\ last_review = NoReview
    /\ sc_result = NotEvaluated
    /\ step_failed = FALSE
    /\ synth_calls = NoCalls
    /\ all_succeeded = TRUE
    /\ heap = <<>>
    /\ tasks = [i \in Tasks |-> IdleTask]
    /\ alone = [i \in Tasks |-> NewConversation(None, None, 0)]
    /\ run_search_raised = FALSE

\* task i moves on: its conversation now has the value c, computed by the step
\* from View(heap, ...); a is the same step computed on alone[i]
Advance(i, c, a, next_pc, query) ==
    /\ heap' = Store(heap, tasks[i].conversation, c)
    /\ tasks' = [tasks EXCEPT ![i] =
                    [pc |-> next_pc, conversation |-> UpdateObj(tasks[i].conversation, c),
                     search_query |-> query,
                     steps |-> Min(tasks[i].steps + 1, MaxPairSteps)]]
    /\ alone' = [alone EXCEPT ![i] = a]
    /\ UNCHANGED LoopVars

\* conversation = RfpConversation(user_query=..., max_attempts=MAX_ATTEMPTS, ...)
ChatWithRfp(i) ==
    /\ tasks[i].pc = "idle"
    /\ \E uq \in UserQueries, pn \in PairPursuits :
         LET made == Construct(heap, uq, pn, MAX_ATTEMPTS)
         IN  /\ heap' = made.heap
             /\ tasks' = [tasks EXCEPT ![i] =
                             [pc |-> "start", conversation |-> made.obj,
                              search_query |-> None, steps |-> 0]]
             /\ alone' = [alone EXCEPT ![i] = NewConversation(uq, pn, MAX_ATTEMPTS)]
    /\ UNCHANGED LoopVars

PairStart(i) ==
    /\ tasks[i].pc = "start"
    /\ \E ok \in BOOLEAN :
         LET c == View(heap, tasks[i].conversation)
         IN  Advance(i, c, alone[i], IF ok THEN WhileTest(c) ELSE "raised", None)

PairGenerate(i) ==
    /\ tasks[i].pc = "generate"
    /\ \E resp \in GenResponses :
         LET c == View(heap, tasks[i].conversation)
             out == generate_search_query(c, resp)
         IN  /\ resp.ok => PairInBudget(tasks[i].steps)
             /\ Advance(i, out.conv, generate_search_query(alone[i], resp).conv,
                        "search", out.ret)

PairSearch(i) ==
    /\ tasks[i].pc = "search"
    /\ \E resp \in SearchResponses(View(heap, tasks[i].conversation)) :
         LET c == View(heap, tasks[i].conversation)
         IN  /\ resp.ok => PairInBudget(tasks[i].steps)
             /\ Advance(i, execute_search(c, tasks[i].search_query, resp),
                        execute_search(alone[i], tasks[i].search_query, resp),
                        "review", tasks[i].search_query)

PairReview(i) ==
    /\ tasks[i].pc = "review"
    /\ \E resp \in PairReviewResponses(tasks[i].conversation.current_results) :
         LET c == review_search_results(View(heap, tasks[i].conversation), resp)
         IN  /\ resp.ok => PairInBudget(tasks[i].steps)
             /\ Advance(i, c, review_search_results(alone[i], resp),
                        WhileTest(c), tasks[i].search_query)

PairFinal(i) ==
    /\ tasks[i].pc = "final"
    /\ \E resp \in FinalResponses :
         LET c == View(heap, tasks[i].conversation)
         IN  /\ resp.ok => PairInBudget(tasks[i].steps)
             /\ Advance(i, generate_final_answer(c, resp).conv,
                        generate_final_answer(alone[i], resp).conv,
                        "done", tasks[i].search_query)

NextPair ==
    \/ \E i \in Tasks : ChatWithRfp(i)
    \/ \E i \in Tasks : PairStart(i)
    \/ \E i \in Tasks : PairGenerate(i)
    \/ \E i \in Tasks : PairSearch(i)
    \/ \E i \in Tasks : PairReview(i)
    \/ \E i \in Tasks : PairFinal(i)

SpecPair == InitPair /\ [][NextPair]_vars

-----------------------------------------------------------------------------
(* AgentIntent (agents/agentIntent.py): the capabilities workflow.  Same    *)
(* loop over a CapabilitiesConversation, which has the fields of            *)
(* RfpConversation without pursuit_name.  run_search returns SearchResult   *)
(* objects (pydantic models); AgentIntent reads them with result["..."] and *)
(* result.get(...), which such objects do not support (TypeError,           *)
(* AttributeError).                                                         *)

Intents == {"capability", "process"}

\* [... result["pursuit_name"] ... for result in results] / result.get(...)
\* over a list of SearchResult objects: raises on the first element
ReadAsDict(results) == results # <<>>

\* AgentIntent.execute_search: current_results is assigned inside the try,
\* after run_search returned; the except branch returns [] and assigns nothing
Intent_execute_search(c, query, resp) ==
    IF ~resp.ok
    THEN [conv |-> c, ret |-> <<>>, failed |-> TRUE]
    ELSE LET assigned == [c EXCEPT !.current_results = resp.results]
         IN  IF ReadAsDict(resp.results)
             THEN [conv |-> assigned, ret |-> <<>>, failed |-> TRUE]
             ELSE [conv |-> [assigned EXCEPT !.thought_process =
                               Append(@, TraceEntry("retrieve", query, Summary(resp.results),
                                                    <<>>, <<>>, "", ""))],
                   ret |-> resp.results, failed |-> FALSE]

\* AgentIntent.review_search_results: the prompt is formatted from
\* conversation.current_results and vetted_results before the model call
Intent_review_raised(c, rd) ==
    \/ ReadAsDict(c.current_results)
    \/ ReadAsDict(c.vetted_results)
    \/ ~rd.ok
    \/ ReviewTrace(c, rd).raised

Intent_review_search_results(c, rd) ==
    IF Intent_review_raised(c, rd)
    THEN c
    ELSE review_search_results(c, rd)

\* AgentIntent.generate_final_answer: the vetted results are formatted with
\* result.get(...) inside the try
AttributeErrorMessage == "error: no attribute get"

Intent_generate_final_answer(c, resp) ==
    IF c.vetted_results = <<>>
    THEN [conv |-> c, ret |-> InsufficientMessage, failed |-> FALSE]
    ELSE IF ReadAsDict(c.vetted_results)
         THEN [conv |-> c, ret |-> AttributeErrorMessage, failed |-> TRUE]
         ELSE generate_final_answer(c, resp)

InitIntent ==
    /\ conversation = NewConversation(None, None, 0)
    /\ pc = "classify"
    /\ search_query = None
    /\ result = None
    /\ gen_calls = 0
    /\ search_calls = 0
    /\ review_calls = 0
    /\ final_calls = 0
    /\ retriever_queries = <<>>
    /\ prev_retrieved = {}
    /\ last_review = NoReview
    /\ sc_result = NotEvaluated
    /\ step_failed = FALSE
    /\ synth_calls = NoCalls
    /\ all_succeeded = TRUE
    /\ heap = <<>>
    /\ tasks = [i \in Tasks |-> IdleTask]
    /\ alone = [i \in Tasks |-> NewConversation(None, None, 0)]
    /\ run_search_raised = FALSE

IntentFrame == UNCHANGED <<retriever_queries, prev_retrieved, sc_result, synth_calls,
                           heap, tasks, alone>>

\* classify_intent: the model call is outside any try block; on "capability" a
\* CapabilitiesConversation is constructed with max_attempts=MAX_ATTEMPTS
ClassifyIntent ==
    /\ pc = "classify"
    /\ \E ok \in BOOLEAN, intent \in Intents, uq \in UserQueries :
         /\ step_failed' = ~ok
         /\ all_succeeded' = (all_succeeded /\ ~step_failed')
         /\ IF ~ok
            THEN /\ pc' = "raised"
                 /\ UNCHANGED <<conversation, result>>
            ELSE IF intent = "capability"
                 THEN /\ pc' = "start"
                      /\ conversation' = NewConversation(uq, None, MAX_ATTEMPTS)
                      /\ UNCHANGED result
                 ELSE /\ pc' = "done"
                      /\ result' = intent
                      /\ UNCHANGED conversation
    /\ UNCHANGED <<search_query, gen_calls, search_calls, review_calls, final_calls,
                   last_review, run_search_raised>>
    /\ IntentFrame

\* azure_openai = AzureOpenAIService(); azure_search = AzureAISearchService(),
\* outside any try block, then the first evaluation of the while condition
IntentStart ==
    /\ pc = "start"
    /\ \E ok \in BOOLEAN :
         /\ step_failed' = ~ok
         /\ all_succeeded' = (all_succeeded /\ ~step_failed')
         /\ pc' = IF ok THEN WhileTest(conversation) ELSE "raised"
    /\ UNCHANGED <<conversation, search_query, result, gen_calls, search_calls,
                   review_calls, final_calls, last_review, run_search_raised>>
    /\ IntentFrame

\* search_query = await self.generate_search_query(conversation, azure_openai)
IntentGenerate ==
    /\ pc = "generate"
    /\ \E resp \in GenResponses :
         LET out == generate_search_query(conversation, resp)
         IN  /\ resp.ok => InBudget(gen_calls + 1)
             /\ conversation' = out.conv
             /\ search_query' = out.ret
             /\ step_failed' = ~resp.ok
             /\ all_succeeded' = (all_succeeded /\ ~step_failed')
    /\ gen_calls' = Bump(gen_calls)
    /\ last_review' = NoReview
    /\ run_search_raised' = FALSE
    /\ pc' = "search"
    /\ UNCHANGED <<result, search_calls, review_calls, final_calls>>
    /\ IntentFrame

\* search_results = await self.execute_search(search_query, conversation, azure_search)
IntentSearch ==
    /\ pc = "search"
    /\ \E resp \in SearchResponses(conversation) :
         LET out == Intent_execute_search(conversation, search_query, resp)
         IN  /\ resp.ok => InBudget(gen_calls)
             /\ conversation' = out.conv
             /\ step_failed' = out.failed
             /\ all_succeeded' = (all_succeeded /\ ~step_failed')
             /\ run_search_raised' = ~resp.ok
    /\ search_calls' = Bump(search_calls)
    /\ pc' = "review"
    /\ UNCHANGED <<search_query, result, gen_calls, review_calls, final_calls, last_review>>
    /\ IntentFrame

\* await self.review_search_results(conversation, search_results, azure_openai),
\* then the while condition again
IntentReview ==
    /\ pc = "review"
    /\ \E resp \in ReviewResponses(conversation.current_results) :
         /\ resp.ok => InBudget(gen_calls)
         /\ conversation' = Intent_review_search_results(conversation, resp)
         /\ last_review' = [ok |-> resp.ok, thought_process |-> resp.thought_process,
                            valid_results |-> resp.valid_results,
                            invalid_results |-> resp.invalid_results,
                            decision |-> resp.decision,
                            batch |-> conversation.current_results]
         /\ step_failed' = Intent_review_raised(conversation, resp)
         /\ all_succeeded' = (all_succeeded /\ ~step_failed')
    /\ review_calls' = Bump(review_calls)
    /\ run_search_raised' = FALSE
    /\ pc' = WhileTest(conversation')
    /\ UNCHANGED <<search_query, result, gen_calls, search_calls, final_calls>>
    /\ IntentFrame

\* final_answer = await self.generate_final_answer(conversation, azure_openai)
\* return conversation.to_result(final_answer)
IntentFinal ==
    /\ pc = "final"
    /\ \E resp \in FinalResponses :
         LET out == Intent_generate_final_answer(conversation, resp)
         IN  /\ conversation' = out.conv
             /\ result' = to_result(out.conv, out.ret)
             /\ step_failed' = out.failed
             /\ all_succeeded' = (all_succeeded /\ ~step_failed')
    /\ final_calls' = final_calls + 1
    /\ last_review' = NoReview
    /\ pc' = "done"
    /\ UNCHANGED <<search_query, gen_calls, search_calls, review_calls, run_search_raised>>
    /\ IntentFrame

NextIntent ==
    \/ ClassifyIntent
    \/ IntentStart
    \/ IntentGenerate
    \/ IntentSearch
    \/ IntentReview
    \/ IntentFinal

SpecIntent == InitIntent /\ [][NextIntent]_vars

-----------------------------------------------------------------------------
(* Properties *)

HasFinalize == \E i \in 1..Len(conversation.decisions) : conversation.decisions[i] = "finalize"

ItemsAt(results, indices) == [i \in 1..Len(indices) |-> results[indices[i] + 1]]

OutOfRange(rd, count) ==
    \/ \E i \in 1..Len(rd.valid_results) : rd.valid_results[i] >= count
    \/ \E j \in 1..Len(rd.invalid_results) : rd.invalid_results[j] >= count

\* C1: whatever calls fail, the loop eventually leaves Searching: once the
\* workflow is in the loop, should_continue becomes false and the Answer
\* Synthesizer is reached.
C1_LoopTerminates == (pc \in {"generate", "search", "review"}) ~> (pc = "final")

\* C2: the Query Generator, the Retriever and the Result Reviewer are each
\* called at most max_attempts times in one run.
C2_CallsBounded ==
    /\ gen_calls <= conversation.max_attempts
    /\ search_calls <= conversation.max_attempts
    /\ review_calls <= conversation.max_attempts

\* C3: every call of the Query Generator, fallback included, increments
\* attempts by one and appends to search_history the query it returns.
C3_GenerateRecordsAttempt ==
    [][ pc = "generate" =>
          /\ conversation'.attempts = conversation.attempts + 1
          /\ conversation'.search_history =
                 Append(conversation.search_history, [query |-> search_query']) ]_vars

\* C4: a reviewer response with out-of-range indices is not skipped: the
\* rationale and the decision are recorded, the in-range valid items are moved
\* to vetted_results, the in-range invalid items to discarded_results, and
\* their identifiers to processed_ids.
C4_OutOfRangeDropped ==
    [][ ( /\ pc = "review"
          /\ last_review'.ok
          /\ OutOfRange(last_review', Len(conversation.current_results)) )
        =>
        LET batch == conversation.current_results
            valid == ItemsAt(batch, FilterIndices(last_review'.valid_results, Len(batch)))
            invalid == ItemsAt(batch, FilterIndices(last_review'.invalid_results, Len(batch)))
        IN  /\ conversation'.reviews =
                   Append(conversation.reviews, last_review'.thought_process)
            /\ conversation'.decisions =
                   Append(conversation.decisions, last_review'.decision)
            /\ conversation'.vetted_results = conversation.vetted_results \o valid
            /\ conversation'.discarded_results = conversation.discarded_results \o invalid
            /\ conversation'.processed_ids =
                   conversation.processed_ids \cup ChunkIds(valid) \cup ChunkIds(invalid)
      ]_vars

\* C5: processed_ids is exactly the set of chunk identifiers of the items in
\* vetted_results and discarded_results.
C5_ProcessedIdsExact ==
    conversation.processed_ids =
        ChunkIds(conversation.vetted_results) \cup ChunkIds(conversation.discarded_results)

C5_Witness ==
    /\ pc = "done"
    /\ conversation.vetted_results # <<>>
    /\ conversation.discarded_results # <<>>
    /\ Cardinality(conversation.processed_ids) = 2

\* C6: a chunk identifier placed in current_results by one retrieval is never
\* placed there again by a later retrieval of the same conversation.
C6_NoReappearance ==
    [][ pc = "search" =>
          ChunkIds(conversation'.current_results) \cap prev_retrieved = {} ]_vars

\* C7: no item whose identifier is in processed_ids is in current_results, so
\* no vetted or discarded item is retrieved or reviewed again.
C7_ProcessedNeverRetrieved ==
    \A i \in 1..Len(conversation.current_results) :
        conversation.current_results[i].chunk_id \notin conversation.processed_ids

C7_Witness ==
    /\ pc = "review"
    /\ conversation.processed_ids # {}
    /\ conversation.current_results # <<>>
    /\ search_calls = 2

\* C8: once "finalize" is in decisions no Query Generator, Retriever or
\* Reviewer call is made any more.
C8_FinalizeStops ==
    [][ HasFinalize =>
          /\ pc' \in {"final", "done"}
          /\ gen_calls' = gen_calls
          /\ search_calls' = search_calls
          /\ review_calls' = review_calls ]_vars

C8_Witness ==
    /\ pc = "done"
    /\ HasFinalize
    /\ conversation.attempts < conversation.max_attempts
    /\ conversation.max_attempts = MAX_ATTEMPTS

\* C9: should_continue() returns true exactly when attempts < max_attempts and
\* "finalize" occurs at no position of decisions.
C9_ShouldContinue ==
    sc_result.evaluated =>
        ( sc_result.value <=>
            ( /\ conversation.attempts < conversation.max_attempts
              /\ \A i \in 1..Len(conversation.decisions) :
                     conversation.decisions[i] # "finalize" ) )

C9_Witness ==
    /\ pc = "harness"
    /\ sc_result.evaluated
    /\ ~sc_result.value
    /\ conversation.attempts < conversation.max_attempts
    /\ Len(conversation.decisions) = 3
    /\ conversation.decisions[1] = "finalize"
    /\ conversation.decisions[2] = "retry"
    /\ conversation.decisions[3] = "retry"

\* C10: attempts equals the length of search_history.
C10_AttemptsIsHistoryLength ==
    conversation.attempts = Len(conversation.search_history)

C10_Witness ==
    /\ conversation.attempts = 1
    /\ Len(conversation.search_history) = 1
    /\ gen_calls = 2
    /\ pc = "done"

\* C11: once the loop has terminated (the workflow is at or past the Answer
\* Synthesizer), attempts <= max_attempts.
C11_AttemptsWithinBudget ==
    pc \in {"final", "done"} => conversation.attempts <= conversation.max_attempts

C11_Witness ==
    /\ pc = "done"
    /\ conversation.max_attempts > 0
    /\ conversation.attempts = conversation.max_attempts
    /\ gen_calls > conversation.attempts

\* C12: a successful review step whose index lists are all in range appends
\* the rationale to reviews and the decision to decisions, appends the items at
\* the valid indices to vetted_results and those at the invalid indices to
\* discarded_results in listed order, adds the identifiers of both to
\* processed_ids, and leaves current_results empty.
C12_ReviewEffects ==
    [][ ( /\ pc = "review"
          /\ last_review'.ok
          /\ ~OutOfRange(last_review', Len(conversation.current_results)) )
        =>
        LET batch == conversation.current_results
            valid == ItemsAt(batch, last_review'.valid_results)
            invalid == ItemsAt(batch, last_review'.invalid_results)
        IN  /\ conversation'.reviews =
                   Append(conversation.reviews, last_review'.thought_process)
            /\ conversation'.decisions =
                   Append(conversation.decisions, last_review'.decision)
            /\ conversation'.vetted_results = conversation.vetted_results \o valid
            /\ conversation'.discarded_results = conversation.discarded_results \o invalid
            /\ conversation'.processed_ids =
                   conversation.processed_ids \cup ChunkIds(valid) \cup ChunkIds(invalid)
            /\ conversation'.current_results = <<>>
      ]_vars

C12_Witness ==
    /\ last_review.ok
    /\ Len(last_review.batch) = 2
    /\ last_review.valid_results = <<1>>
    /\ last_review.invalid_results = <<0>>
    /\ conversation.vetted_results = <<last_review.batch[2]>>
    /\ conversation.discarded_results = <<last_review.batch[1]>>
    /\ conversation.current_results = <<>>
    /\ Len(conversation.reviews) = 1

\* C13: when the reviewer's model call fails, the review step leaves reviews,
\* decisions, vetted_results, discarded_results and processed_ids unchanged,
\* raises nothing to the loop, and the loop evaluates should_continue on the
\* prior decisions.
C13_ReviewFailureFrame ==
    [][ (pc = "review" /\ ~last_review'.ok)
        =>
        /\ conversation'.reviews = conversation.reviews
        /\ conversation'.decisions = conversation.decisions
        /\ conversation'.vetted_results = conversation.vetted_results
        /\ conversation'.discarded_results = conversation.discarded_results
        /\ conversation'.processed_ids = conversation.processed_ids
        /\ pc' = WhileTest(conversation)
        /\ sc_result' = Evaluated(should_continue(conversation))
      ]_vars

C13_Witness ==
    /\ pc = "generate"
    /\ review_calls = 2
    /\ step_failed
    /\ ~last_review.ok
    /\ last_review.batch # <<>>
    /\ conversation.decisions = <<"retry">>
    /\ conversation.vetted_results # <<>>

\* C14: no chunk identifier occurs more than once in vetted_results and
\* discarded_results taken together.
C14_NoDuplicateItems ==
    LET all == conversation.vetted_results \o conversation.discarded_results
    IN  \A i, j \in 1..Len(all) : i # j => all[i].chunk_id # all[j].chunk_id

\* C15: when query generation fails, generate_search_query returns user_query
\* and changes nothing, nothing is raised to the loop, and the same iteration
\* calls the Retriever with user_query and then the Reviewer.
C15_GenerateFallback ==
    [][ /\ (pc = "generate" /\ step_failed') =>
              /\ search_query' = conversation.user_query
              /\ conversation' = conversation
              /\ pc' = "search"
        /\ (pc = "search" /\ step_failed) =>
              /\ search_calls' = Bump(search_calls)
              /\ Len(retriever_queries) < MaxCalls =>
                     retriever_queries' = Append(retriever_queries, conversation.user_query)
              /\ gen_calls' = gen_calls
              /\ pc' = "review"
        /\ pc = "review" =>
              /\ review_calls' = Bump(review_calls)
              /\ gen_calls' = gen_calls
      ]_vars

C15_Witness ==
    /\ pc = "generate"
    /\ gen_calls = 1
    /\ search_calls = 1
    /\ review_calls = 1
    /\ conversation.attempts = 0
    /\ retriever_queries = <<conversation.user_query>>
    /\ conversation.vetted_results # <<>>

\* C16: when the index search fails, execute_search raises nothing, sets
\* current_results to the empty list and changes nothing else, and the loop
\* goes on with the review step of the same iteration.
C16_SearchFailure ==
    [][ /\ (pc = "search" /\ step_failed') =>
              /\ conversation' = [conversation EXCEPT !.current_results = <<>>]
              /\ gen_calls' = gen_calls
              /\ pc' = "review"
        /\ (pc = "review" /\ step_failed) =>
              /\ review_calls' = Bump(review_calls)
              /\ gen_calls' = gen_calls
      ]_vars

C16_Witness ==
    /\ pc = "review"
    /\ step_failed
    /\ search_calls = 2
    /\ conversation.current_results = <<>>
    /\ conversation.reviews = <<>>
    /\ Len(conversation.thought_process) = 1
    /\ conversation.thought_process[1].results # <<>>

\* C17: no exception escapes execute_conversation_workflow, whichever external
\* call fails.
C17_NoEscape == pc # "raised"

\* C18: in every conversation the Answer Synthesizer runs exactly once, only
\* when should_continue is false, and no Query Generator, Retriever or
\* Reviewer call follows it.
C18_SynthesizerExactlyOnce ==
    /\ [](final_calls <= 1)
    /\ [][ /\ pc = "final" => (~should_continue(conversation) /\ pc' = "done")
           /\ final_calls = 1 =>
                 (gen_calls' = gen_calls /\ search_calls' = search_calls
                     /\ review_calls' = review_calls) ]_vars
    /\ <>(final_calls = 1)

\* C19: with max_attempts = 0 the loop body never runs (no Query Generator,
\* Retriever or Reviewer call), the Answer Synthesizer is the first step after
\* the start, with empty vetted_results, and the result carries the fixed
\* insufficient-information message and attempts = 0.
C19_ZeroBudget ==
    [][ conversation.max_attempts = 0 =>
          /\ pc' \notin {"generate", "search", "review"}
          /\ gen_calls' = 0 /\ search_calls' = 0 /\ review_calls' = 0
          /\ (pc = "start" /\ ~step_failed') =>
                 (pc' = "final" /\ conversation.vetted_results = <<>>)
          /\ pc = "final" =>
                 /\ pc' = "done"
                 /\ result'.final_answer = InsufficientMessage
                 /\ result'.attempts = 0
                 /\ result'.citations = <<>>
      ]_vars

C19_Witness ==
    /\ pc = "done"
    /\ conversation.max_attempts = 0
    /\ final_calls = 1
    /\ gen_calls = 0
    /\ result.final_answer = InsufficientMessage
    /\ result.attempts = 0

\* C20: when vetted_results is empty at synthesis time, generate_final_answer
\* returns the fixed insufficient-information message and makes neither a model
\* call nor a chat-history call; the model is called for synthesis only when
\* vetted_results is non-empty.
C20_EmptyVettedNoModelCall ==
    [][ pc = "final" =>
          /\ conversation.vetted_results = <<>> =>
                 /\ result'.final_answer = InsufficientMessage
                 /\ synth_calls' = NoCalls
                 /\ conversation' = conversation
          /\ synth_calls'.model => conversation.vetted_results # <<>>
      ]_vars

C20_Witness ==
    /\ pc = "done"
    /\ conversation.vetted_results = <<>>
    /\ conversation.discarded_results # <<>>
    /\ review_calls = 2
    /\ result.final_answer = InsufficientMessage
    /\ synth_calls = NoCalls

\* C21: when the synthesis model call fails, generate_final_answer raises
\* nothing: it returns an error message that embeds the failure reason (distinct
\* reasons give distinct messages, none of them the insufficient-information
\* message or a model answer), and the conversation completes with a result
\* built from the unchanged conversation.
C21_SynthesisFailureMessage ==
    [][ (pc = "final" /\ step_failed' /\ synth_calls'.model) =>
          /\ pc' = "done"
          /\ conversation' = conversation
          /\ result' = to_result(conversation, ErrorMessage(synth_calls'.error))
          /\ synth_calls'.error \in FailureReasons
          /\ \A e \in FailureReasons \ {synth_calls'.error} :
                 result'.final_answer # ErrorMessage(e)
          /\ result'.final_answer \notin ModelAnswers \cup {InsufficientMessage}
      ]_vars

C21_Witness ==
    /\ pc = "done"
    /\ step_failed
    /\ synth_calls.model
    /\ synth_calls.error = "e2"
    /\ result.final_answer = ErrorMessage("e2")
    /\ result.citations # <<>>
    /\ final_calls = 1

TraceCount(c, step) ==
    Cardinality({i \in 1..Len(c.thought_process) : c.thought_process[i].step = step})

\* C22: every run of the Answer Synthesizer appends a response trace entry
\* holding the returned answer, so the trace of a completed conversation has
\* exactly one response entry.
C22_OneResponseEntry ==
    pc = "done" =>
        /\ TraceCount(conversation, "response") = 1
        /\ conversation.thought_process[Len(conversation.thought_process)] =
               TraceEntry("response", "", <<>>, <<>>, <<>>, "", result.final_answer)

\* C23: every Retriever call, a failed one included, appends one retrieve
\* trace entry and sets current_results to the returned list (empty on
\* failure).
C23_RetrieveTraced ==
    [][ pc = "search" =>
          /\ Len(conversation'.thought_process) = Len(conversation.thought_process) + 1
          /\ conversation'.thought_process[Len(conversation'.thought_process)].step = "retrieve"
          /\ step_failed' => conversation'.current_results = <<>>
      ]_vars

\* C24: between loop steps len(reviews) = len(decisions), both equal the
\* number of review steps that completed (one review trace entry each), and
\* that number never exceeds attempts.
C24_ReviewsWithinAttempts ==
    /\ Len(conversation.reviews) = Len(conversation.decisions)
    /\ Len(conversation.reviews) = TraceCount(conversation, "review")
    /\ Len(conversation.reviews) <= conversation.attempts

\* C25: current_results is empty at the start and at the end of every loop
\* iteration, whatever the outcome of the review step, and when the Answer
\* Synthesizer runs.
C25_CurrentResultsEmpty ==
    pc \in {"generate", "final"} => conversation.current_results = <<>>

\* the identifiers the review entries of a trace list under one field, in order
RECURSIVE ReviewedIds(_, _)
ReviewedIds(trace, field) ==
    IF trace = <<>> THEN <<>>
    ELSE (IF Head(trace).step = "review" THEN Head(trace)[field] ELSE <<>>)
             \o ReviewedIds(Tail(trace), field)

\* C26: in a run where every external call succeeds and every review lists
\* in-range indices, the final vetted_results is the in-order concatenation of
\* the items at the valid indices of each iteration's batch, discarded_results
\* likewise for the invalid indices, attempts is the number of iterations
\* performed, and the Answer Synthesizer is called once with those vetted items.
C26_SuccessfulRun ==
    (pc = "done" /\ all_succeeded) =>
        /\ Summary(conversation.vetted_results) =
               ReviewedIds(conversation.thought_process, "valid")
        /\ Summary(conversation.discarded_results) =
               ReviewedIds(conversation.thought_process, "invalid")
        /\ conversation.attempts = gen_calls
        /\ conversation.attempts = search_calls
        /\ conversation.attempts = review_calls
        /\ conversation.attempts = TraceCount(conversation, "retrieve")
        /\ conversation.attempts = Len(conversation.decisions)
        /\ final_calls = 1
        /\ result.citations = conversation.vetted_results
        /\ conversation.vetted_results # <<>> =>
               (synth_calls.model /\ result.final_answer \in ModelAnswers)

\* two iterations, retry then finalize: [c1, c2] with valid [1], then [c1] with
\* valid [0]
C26_Witness ==
    /\ pc = "done"
    /\ all_succeeded
    /\ conversation.max_attempts = 2
    /\ conversation.attempts = 2
    /\ conversation.decisions = <<"retry", "finalize">>
    /\ Summary(conversation.vetted_results) = <<"c2", "c1">>
    /\ conversation.discarded_results = <<>>
    /\ result.final_answer \in ModelAnswers

IsPrefix(s, t) == Len(s) <= Len(t) /\ \A i \in 1..Len(s) : s[i] = t[i]

\* C27: search_history, vetted_results, discarded_results, reviews and
\* decisions are append-only: in every step the old value of each is a prefix
\* of the new one, and processed_ids never loses an element.
C27_AppendOnly ==
    [][ /\ IsPrefix(conversation.search_history, conversation'.search_history)
        /\ IsPrefix(conversation.vetted_results, conversation'.vetted_results)
        /\ IsPrefix(conversation.discarded_results, conversation'.discarded_results)
        /\ IsPrefix(conversation.reviews, conversation'.reviews)
        /\ IsPrefix(conversation.decisions, conversation'.decisions)
        /\ conversation.processed_ids \subseteq conversation'.processed_ids
      ]_vars

C27_Witness ==
    /\ pc = "done"
    /\ Len(conversation.search_history) = 2
    /\ Len(conversation.reviews) = 2
    /\ Len(conversation.decisions) = 2
    /\ Len(conversation.vetted_results) = 1
    /\ Len(conversation.discarded_results) = 1
    /\ Cardinality(conversation.processed_ids) = 2
    /\ TraceCount(conversation, "review") = 2

\* C28: each loop iteration makes exactly one Query Generator call, then
\* exactly one Retriever call, then exactly one Reviewer call, in that order,
\* one step at a time and without re-issuing a failed call; should_continue is
\* evaluated again only after the Reviewer step, and decides what follows.
C28_IterationOrder ==
    [][ /\ pc = "generate" =>
              /\ search_calls = gen_calls /\ review_calls = gen_calls
              /\ gen_calls' = Bump(gen_calls)
              /\ search_calls' = search_calls /\ review_calls' = review_calls
              /\ sc_result' = sc_result
              /\ pc' = "search"
        /\ pc = "search" =>
              /\ gen_calls = Bump(search_calls) /\ review_calls = search_calls
              /\ search_calls' = Bump(search_calls)
              /\ gen_calls' = gen_calls /\ review_calls' = review_calls
              /\ sc_result' = sc_result
              /\ pc' = "review"
        /\ pc = "review" =>
              /\ search_calls = gen_calls /\ gen_calls = Bump(review_calls)
              /\ review_calls' = Bump(review_calls)
              /\ gen_calls' = gen_calls /\ search_calls' = search_calls
              /\ sc_result' = Evaluated(should_continue(conversation'))
              /\ pc' = IF sc_result'.value THEN "generate" ELSE "final"
      ]_vars

C28_Witness ==
    /\ pc = "final"
    /\ gen_calls = 2 /\ search_calls = 2 /\ review_calls = 2
    /\ step_failed
    /\ TraceCount(conversation, "retrieve") = 0
    /\ conversation.attempts = 1
    /\ sc_result = Evaluated(FALSE)

\* C30: the result of a completed conversation reflects its final state:
\* citations is vetted_results, the trace is thought_process, attempts is
\* the attempts counter and search_queries is the query strings of
\* search_history in order, so their number is attempts.
C30_ResultReflectsState ==
    pc = "done" =>
        /\ result.citations = conversation.vetted_results
        /\ result.thought_process = conversation.thought_process
        /\ result.attempts = conversation.attempts
        /\ Len(result.search_queries) = Len(conversation.search_history)
        /\ \A i \in 1..Len(result.search_queries) :
               result.search_queries[i] = conversation.search_history[i].query
        /\ Len(result.search_queries) = result.attempts

C30_Witness ==
    /\ pc = "done"
    /\ result.attempts = 2
    /\ Len(result.search_queries) = 2
    /\ Len(result.citations) = 2
    /\ TraceCount(conversation, "response") = 1
    /\ Len(result.thought_process) = 5

ConversationState ==
    {"attempts", "search_history", "current_results", "vetted_results",
     "discarded_results", "processed_ids", "reviews", "decisions"}

\* C29: two conversations whose steps interleave share no state: each one's
\* attempts, search_history, current_results, vetted_results,
\* discarded_results, processed_ids, reviews and decisions are what they are
\* when the conversation runs alone with the same external-call outcomes.
C29_ConversationsIndependent ==
    \A i \in Tasks :
        tasks[i].pc # "idle" =>
            \A f \in ConversationState :
                View(heap, tasks[i].conversation)[f] = alone[i][f]

\* both requests ask within the same pursuit; the first has vetted c1 and is
\* done, the second has just retrieved c1 for itself
C29_Witness ==
    /\ tasks[1].pc = "done"
    /\ tasks[2].pc = "review"
    /\ tasks[1].conversation.pursuit_name = tasks[2].conversation.pursuit_name
    /\ ChunkIds(View(heap, tasks[1].conversation).vetted_results) = {"c1"}
    /\ View(heap, tasks[1].conversation).decisions = <<"finalize">>
    /\ ChunkIds(tasks[2].conversation.current_results) = {"c1"}
    /\ View(heap, tasks[2].conversation).processed_ids = {}
    /\ View(heap, tasks[2].conversation).decisions = <<>>
    /\ View(heap, tasks[2].conversation).attempts = 1

\* C31: in the capabilities workflow, when the search call of an iteration
\* fails, current_results is empty when that iteration's review step runs.
C31_IntentSearchFailure ==
    (pc = "review" /\ run_search_raised) => conversation.current_results = <<>>

C33_BatchFullyClassified ==
    (last_review.ok /\ ~step_failed)
    =>
    /\ ChunkIds(last_review.batch) \subseteq conversation.processed_ids
    /\ ChunkIds(last_review.batch) \subseteq
           ChunkIds(conversation.vetted_results) \cup ChunkIds(conversation.discarded_results)

\* C34: at the start of every iteration len(reviews) = len(search_history), so
\* that zip(search_history, reviews) pairs the i-th recorded query with the
\* rationale produced for its results.
C34_ReviewsAlignedWithHistory ==
    pc = "generate" =>
        Len(conversation.reviews) = Len(conversation.search_history)

\* C35: when the loop has exited, "finalize" is in decisions or attempts equals
\* max_attempts; attempts exceeds max_attempts in no state.
C35_LoopExitCondition ==
    /\ conversation.attempts <= conversation.max_attempts
    /\ pc \in {"final", "done"} =>
           (HasFinalize \/ conversation.attempts = conversation.max_attempts)

\* the loop ran out of budget without a finalize decision
C35_Witness ==
    /\ pc = "final"
    /\ ~HasFinalize
    /\ conversation.max_attempts = 2
    /\ conversation.attempts = 2
    /\ conversation.decisions = <<"retry", "retry">>

\* C36: decisions contains at most one "finalize"; if it contains one it is the
\* last element, and every earlier element is "retry".
C36_FinalizeLast ==
    \A i \in 1..Len(conversation.decisions) :
        IF i < Len(conversation.decisions)
        THEN conversation.decisions[i] = "retry"
        ELSE conversation.decisions[i] \in {"retry", "finalize"}

C36_Witness ==
    /\ pc = "final"
    /\ conversation.decisions = <<"retry", "finalize">>
    /\ conversation.attempts < conversation.max_attempts

\* C37: the Answer Synthesizer step leaves attempts, search_history,
\* current_results, vetted_results, discarded_results, processed_ids, reviews
\* and decisions unchanged on every path and can only append to
\* thought_process; the citations returned are the vetted_results as they
\* stood when the loop exited.
C37_SynthesizerFrame ==
    [][ pc = "final"
        =>
        /\ \A f \in ConversationState : conversation'[f] = conversation[f]
        /\ IsPrefix(conversation.thought_process, conversation'.thought_process)
        /\ result'.citations = conversation.vetted_results
      ]_vars

\* the synthesizer answered from evidence while an unreviewed batch was still
\* in current_results
C37_Witness ==
    /\ pc = "done"
    /\ conversation.vetted_results # <<>>
    /\ conversation.current_results # <<>>
    /\ result.citations = conversation.vetted_results
    /\ TraceCount(conversation, "response") = 1

====
